---- MODULE Spec2Model ----
(***************************************************************************)
(* The statsd-mesos-kafka framework scheduler (package statsd): the        *)
(* Scheduler's callbacks, SetActive, the HTTP control plane and the        *)
(* configuration they share.                                               *)
(*                                                                         *)
(* Threads.  The Mesos driver delivers every callback on one thread, so    *)
(* callbacks are serialized with each other; every HTTP request runs on a  *)
(* goroutine of its own.  A handler is cut into steps only where it        *)
(* touches memory another thread may touch without the same lock; a        *)
(* blocking Lock() is merged with the step that follows it.                *)
(*                                                                         *)
(* Numbers.  Config.Cpus, Config.Mem and the scalar resources of an offer  *)
(* are float64 in the source; here they are integers counting tenths, so   *)
(* 0.1 cpus is 1 and 64 MB is 640.                                         *)
(***************************************************************************)
EXTENDS Integers, Sequences, FiniteSets, TLC

\* ------------------------------------------------------------------ bounds
MaxTasks == 3      \* launches in a run (each draws a fresh uuid)
MaxBatch == 2      \* offers in one ResourceOffers batch
NumHttp == 1       \* concurrent HTTP request goroutines

\* --------------------------------------------------------------- constants
DefaultCpus == 1   \* Config.Cpus: 0.1
DefaultMem == 640  \* Config.Mem: 64
StripLen == 37     \* hostnameFromTaskId strips "-" and the 36-character uuid

TransformNone == "none"
TransformAvro == "avro"
TransformProto == "proto"

\* ----------------------------------------------------------------- strings
\* A string the program indexes or splits is a sequence of one-character strings.
FrameworkPrefix == <<"s","t","a","t","s","d","-","k","a","f","k","a">>
Hyphen == "-"

Hosts == { <<"a">>, <<"b","-","c">> }

HexDigit(n) == <<"1","2","3","4","5","6","7","8","9","a","b","c","d","e","f">>[((n - 1) % 15) + 1]

\* uuid(): the n-th identifier drawn, in canonical 8-4-4-4-12 form. The draws of
\* one run are pairwise different.
uuid(n) == [i \in 1..36 |-> IF i \in {9, 14, 19, 24} THEN Hyphen ELSE HexDigit(n)]

\* strings.SplitN(s, "-", n) for n >= 1: at most n pieces, the last one unsplit.
RECURSIVE SplitN(_, _)
SplitN(s, n) ==
    IF n = 1 \/ ~(\E i \in 1..Len(s) : s[i] = Hyphen)
    THEN <<s>>
    ELSE LET i == CHOOSE k \in 1..Len(s) :
                      /\ s[k] = Hyphen
                      /\ \A j \in 1..(k - 1) : s[j] # Hyphen
         IN  <<SubSeq(s, 1, i - 1)>> \o SplitN(SubSeq(s, i + 1, Len(s)), n - 1)

\* fmt.Sprintf("statsd-kafka-%s", hostname)
taskName(hostname) == FrameworkPrefix \o <<Hyphen>> \o hostname

\* fmt.Sprintf("%s-%s", taskName, uuid())
taskIdValue(hostname, n) == taskName(hostname) \o <<Hyphen>> \o uuid(n)

\* A mesos.TaskID built by launchTask is kept as the hostname and the number of the
\* uuid it was built from; GetValue is the string it carries.
TaskID(hostname, n) == [hostname |-> hostname, uuid |-> n]
GetValue(taskId) == taskIdValue(taskId.hostname, taskId.uuid)

\* Mutant of hostnameFromTaskId: the uuid is stripped without the hyphen before it.
hostnameFromTaskId_KeepsHyphen(taskId) ==
    LET tokens == SplitN(taskId, 3)
        hostname == tokens[Len(tokens)]
    IN  SubSeq(hostname, 1, Len(hostname) - (StripLen - 1))

\* Mutant of hostnameFromTaskId: the id is split into four pieces, not three.
hostnameFromTaskId_SplitsFour(taskId) ==
    LET tokens == SplitN(taskId, 4)
        hostname == tokens[Len(tokens)]
    IN  SubSeq(hostname, 1, Len(hostname) - StripLen)

hostnameFromTaskId(taskId) ==
    LET tokens == SplitN(taskId, 3)
        hostname == tokens[Len(tokens)]
    IN  SubSeq(hostname, 1, Len(hostname) - StripLen)

\* The task ids launchTask can build in a run, and the hostname hostnameFromTaskId
\* recovers from the string each one carries.
TaskIDs == { TaskID(h, n) : h \in Hosts, n \in 1..MaxTasks }
DecodedHostname == [taskId \in TaskIDs |-> hostnameFromTaskId(GetValue(taskId))]

\* ------------------------------------------------------------------ offers
\* offer.Resources: a list of named entries; a scalar entry carries a value, any
\* other type reads as 0 through GetScalar().GetValue().
Res(name, type, value) == [name |-> name, type |-> type, value |-> value]

ResourceLists ==
    { <<Res("cpus", "SCALAR", 1), Res("mem", "SCALAR", 320), Res("cpus", "SCALAR", 1),
        Res("mem", "SCALAR", 320)>>,
      <<Res("cpus", "SCALAR", 1), Res("mem", "SCALAR", 640)>>,
      <<Res("cpus", "SCALAR", 2), Res("mem", "SCALAR", 320), Res("ports", "RANGES", 0)>> }

Offers == [hostname : Hosts, resources : ResourceLists]

RECURSIVE SumScalars(_, _)
SumScalars(resources, resourceName) ==
    IF resources = <<>>
    THEN 0
    ELSE (IF Head(resources).name = resourceName THEN Head(resources).value ELSE 0)
         + SumScalars(Tail(resources), resourceName)

\* Mutant of getScalarResources: only the first entry of the name is counted.
getScalarResources_FirstEntry(offer, resourceName) ==
    LET is == { i \in 1..Len(offer.resources) : offer.resources[i].name = resourceName }
    IN  IF is = {} THEN 0
        ELSE offer.resources[CHOOSE i \in is : \A j \in is : i <= j].value

getScalarResources(offer, resourceName) == SumScalars(offer.resources, resourceName)

Batches == UNION { [1..n -> Offers] : n \in 1..MaxBatch }

\* ------------------------------------------------------------------ config
InitialConfig ==
    [ ProducerProperties |-> "", BrokerList |-> "", Topic |-> "",
      Transform |-> TransformNone, SchemaRegistryUrl |-> "",
      Cpus |-> DefaultCpus, Mem |-> DefaultMem ]

\* Mutant of CanStart: the avro transform does not ask for a schema registry.
CanStart_IgnoresAvro(c) == (c.ProducerProperties # "" \/ c.BrokerList # "") /\ c.Topic # ""

CanStart(c) ==
    IF c.Transform = TransformAvro /\ c.SchemaRegistryUrl = ""
    THEN FALSE
    ELSE (c.ProducerProperties # "" \/ c.BrokerList # "") /\ c.Topic # ""

\* net/url Values.Get: the first value of the key, "" when the key is absent.
Get(queryParams, name) == IF name \in DOMAIN queryParams THEN queryParams[name] ELSE ""

\* strconv.ParseFloat on the values the requests of this model carry: a decimal
\* literal parses (in tenths), anything else, "" included, is an error.
ParseFloat(value) ==
    CASE value = "0.1" -> [err |-> FALSE, value |-> 1]
      [] value = "0.2" -> [err |-> FALSE, value |-> 2]
      [] value = "64"  -> [err |-> FALSE, value |-> 640]
      [] value = "128" -> [err |-> FALSE, value |-> 1280]
      [] OTHER         -> [err |-> TRUE, value |-> 0]

\* Mutant of UpdateFields: the topic key is written to the broker list.
UpdateFields_TopicToBrokerList ==
    << [key |-> "producer.properties", field |-> "ProducerProperties", float |-> FALSE],
       [key |-> "broker.list", field |-> "BrokerList", float |-> FALSE],
       [key |-> "topic", field |-> "BrokerList", float |-> FALSE],
       [key |-> "transform", field |-> "Transform", float |-> FALSE],
       [key |-> "schema.registry.url", field |-> "SchemaRegistryUrl", float |-> FALSE],
       [key |-> "cpu", field |-> "Cpus", float |-> TRUE],
       [key |-> "mem", field |-> "Mem", float |-> TRUE] >>

\* handleUpdate's seven assignments, in order: the query key and the field it sets.
UpdateFields ==
    << [key |-> "producer.properties", field |-> "ProducerProperties", float |-> FALSE],
       [key |-> "broker.list", field |-> "BrokerList", float |-> FALSE],
       [key |-> "topic", field |-> "Topic", float |-> FALSE],
       [key |-> "transform", field |-> "Transform", float |-> FALSE],
       [key |-> "schema.registry.url", field |-> "SchemaRegistryUrl", float |-> FALSE],
       [key |-> "cpu", field |-> "Cpus", float |-> TRUE],
       [key |-> "mem", field |-> "Mem", float |-> TRUE] >>

\* setConfig: the field is overwritten when the value is not "".
setConfig(c, queryParams, name, field) ==
    LET value == Get(queryParams, name)
    IN  IF value # "" THEN [c EXCEPT ![field] = value] ELSE c

\* setFloatConfig: nothing on a parse error, else the field is overwritten.
setFloatConfig(c, queryParams, name, field) ==
    LET value == Get(queryParams, name)
        parsed == ParseFloat(value)
    IN  IF parsed.err THEN c
        ELSE IF value # "" THEN [c EXCEPT ![field] = parsed.value] ELSE c

\* The i-th assignment of handleUpdate applied to configuration c.
ApplyField(c, queryParams, i) ==
    LET f == UpdateFields[i]
    IN  IF f.float THEN setFloatConfig(c, queryParams, f.key, f.field)
        ELSE setConfig(c, queryParams, f.key, f.field)

\* The requests /api/update receives in this model.
UpdateQueries ==
    { [k \in {"topic", "broker.list"} |-> IF k = "topic" THEN "orders" ELSE "b:9092"],
      [k \in {"cpu"} |-> "0.2"],
      [k \in {"cpu", "topic", "zone"} |-> IF k = "cpu" THEN "abc" ELSE IF k = "topic" THEN "" ELSE "z"] }

\* TaskState values a status callback may carry.
TaskStates ==
    { "TASK_STAGING", "TASK_STARTING", "TASK_RUNNING", "TASK_FINISHED",
      "TASK_FAILED", "TASK_KILLED", "TASK_LOST", "TASK_ERROR" }

\* The states Mesos calls terminal: no further transition follows them.
TerminalStates ==
    { "TASK_FINISHED", "TASK_FAILED", "TASK_KILLED", "TASK_LOST", "TASK_ERROR" }

\* ---------------------------------------------------------------- registry
\* Cluster: a map from hostname to the TaskInfo placed there.
NewCluster == [h \in {} |-> h]

Exists(c, hostname) == hostname \in DOMAIN c

Add(c, hostname, task) ==
    [h \in DOMAIN c \cup {hostname} |-> IF h = hostname THEN task ELSE c[h]]

Remove(c, hostname) == [h \in DOMAIN c \ {hostname} |-> c[h]]

GetAllTasks(c) == { c[h] : h \in DOMAIN c }

\* ----------------------------------------------------------------- threads
HttpThreads == 1..NumHttp

Free == << >>
CbThread == <<"cb">>
Http(t) == <<"http", t>>

\* ------------------------------------------------------------------- state
VARIABLES
    active,      \* Scheduler.active
    driver,      \* Scheduler.driver: "nil" or "driver"
    cluster,     \* Scheduler.cluster
    activeLock,  \* Scheduler.activeLock: Free or the thread holding it
    Config,      \* the package variable Config
    stopped,     \* driver.Stop was called: Run returns and the process exits
    cbpc,        \* the callback thread's position
    cbOffers,    \* ResourceOffers: the batch being handled
    cbIdx,       \* ResourceOffers: the index of the offer being handled
    cbCmds,      \* ResourceOffers: the commands issued by this callback so far
    cbCpus,      \* match: the value of Config.Cpus it compared the offer with
    cbMem,       \* match: the value of Config.Mem it compared the offer with
    hpc,         \* each HTTP goroutine's position
    hTasks,      \* SetActive(false): the tasks GetAllTasks returned
    hKilled,     \* SetActive(false): the task ids KillTask was called with, in order
    hQuery,      \* handleUpdate: the request's query parameters
    hField,      \* handleUpdate: the index of the next assignment
    launched,    \* the task id of every LaunchTasks command issued, in order
    killed,      \* the task ids some KillTask command named
    terminated,  \* the task ids a terminal status was delivered for
    lastConn     \* the last connectivity callback delivered

vars ==
    << active, driver, cluster, activeLock, Config, stopped, cbpc, cbOffers, cbIdx,
       cbCmds, cbCpus, cbMem, hpc, hTasks, hKilled, hQuery, hField, launched, killed, terminated,
       lastConn >>

schedVars == << active, driver, cluster, activeLock >>
cbVars == << cbpc, cbOffers, cbIdx, cbCmds, cbCpus, cbMem >>
httpVars == << hpc, hTasks, hKilled, hQuery, hField >>
logVars == << launched, killed, terminated >>

NoQuery == [k \in {} |-> ""]

Init ==
    /\ active = FALSE
    /\ driver = "nil"
    /\ cluster = NewCluster
    /\ activeLock = Free
    /\ Config = InitialConfig
    /\ stopped = FALSE
    /\ cbpc = "idle"
    /\ cbOffers = << >>
    /\ cbIdx = 0
    /\ cbCmds = << >>
    /\ cbCpus = 0
    /\ cbMem = 0
    /\ hpc = [t \in HttpThreads |-> "idle"]
    /\ hTasks = [t \in HttpThreads |-> {}]
    /\ hKilled = [t \in HttpThreads |-> << >>]
    /\ hQuery = [t \in HttpThreads |-> NoQuery]
    /\ hField = [t \in HttpThreads |-> 0]
    /\ launched = << >>
    /\ killed = {}
    /\ terminated = {}
    /\ lastConn = "none"

\* The driver delivers offers and status updates while it is connected to a master.
Connected == lastConn \in {"Registered", "Reregistered"}

LaunchedIds == { launched[i] : i \in 1..Len(launched) }

\* ------------------------------------------------- connectivity callbacks
Registered ==
    /\ ~stopped /\ cbpc = "idle"
    /\ lastConn = "none"
    /\ driver' = "driver"
    /\ lastConn' = "Registered"
    /\ UNCHANGED << active, cluster, activeLock, Config, stopped, cbVars, httpVars, logVars >>

\* Mutant of Reregistered: the scheduler comes back inactive.
Reregistered_Deactivates ==
    /\ ~stopped /\ cbpc = "idle"
    /\ lastConn = "Disconnected"
    /\ driver' = "driver"
    /\ lastConn' = "Reregistered"
    /\ active' = FALSE
    /\ UNCHANGED << cluster, activeLock, Config, stopped, cbVars, httpVars, logVars >>

Reregistered ==
    /\ ~stopped /\ cbpc = "idle"
    /\ lastConn = "Disconnected"
    /\ driver' = "driver"
    /\ lastConn' = "Reregistered"
    /\ UNCHANGED << active, cluster, activeLock, Config, stopped, cbVars, httpVars, logVars >>

\* Mutant of Disconnected: the driver handle is kept.
Disconnected_KeepsDriver ==
    /\ ~stopped /\ cbpc = "idle"
    /\ Connected
    /\ lastConn' = "Disconnected"
    /\ UNCHANGED << active, driver, cluster, activeLock, Config, stopped, cbVars, httpVars, logVars >>

Disconnected ==
    /\ ~stopped /\ cbpc = "idle"
    /\ Connected
    /\ driver' = "nil"
    /\ lastConn' = "Disconnected"
    /\ UNCHANGED << active, cluster, activeLock, Config, stopped, cbVars, httpVars, logVars >>

\* ---------------------------------------------------------- ResourceOffers
Decline(i, reason) == [cmd |-> "decline", offer |-> i, reason |-> reason]
Launch(i) == [cmd |-> "launch", offer |-> i, reason |-> ""]

\* Mutant of declineAll: the inactive scheduler handles offers like the active one.
declineAll_Never(isActive) == FALSE

\* ResourceOffers, the branch on s.active: TRUE when every offer is declined at once.
declineAll(isActive) == ~isActive

\* Mutant of alreadyRunning: the registry is not consulted.
alreadyRunning_Unchecked(c, offer) == FALSE

\* acceptOffer's first test: s.cluster.Exists(offer.GetHostname()).
alreadyRunning(c, offer) == Exists(c, offer.hostname)

\* match's two comparisons, each a read of one Config field.
noCpus(c, offer) == c.Cpus > getScalarResources(offer, "cpus")
noMem(c, offer) == c.Mem > getScalarResources(offer, "mem")

match(c, offer) ==
    IF noCpus(c, offer) THEN "no cpus"
    ELSE IF noMem(c, offer) THEN "no mem"
    ELSE ""

\* Mutant of launchTask: the task id is built for a fixed hostname.
launchTask_FixedHost(offer, n, c) ==
    [ TaskId |-> TaskID(<<"a">>, n),
      Cpus |-> c.Cpus,
      Mem |-> c.Mem,
      Data |-> c ]

\* launchTask's TaskInfo for the n-th uuid drawn, under configuration c.
launchTask(offer, n, c) ==
    [ TaskId |-> TaskID(offer.hostname, n),
      Cpus |-> c.Cpus,
      Mem |-> c.Mem,
      Data |-> c ]

\* Mutant of AfterOffer: the loop ends after the first offer it answers.
AfterOffer_ReturnsEarly(i) == "ro_return"

\* The callback's position after the offer at index i is answered.
AfterOffer(i) == IF i = Len(cbOffers) THEN "ro_return" ELSE "ro_accept"

\* Entry: Lock(), the test of s.active, and the decline loop of the inactive scheduler.
ResourceOffers(offers) ==
    /\ ~stopped /\ cbpc = "idle" /\ Connected
    /\ activeLock = Free
    /\ Len(launched) + Len(offers) <= MaxTasks
    /\ activeLock' = CbThread
    /\ cbOffers' = offers
    /\ IF declineAll(active)
       THEN /\ cbCmds' = [i \in 1..Len(offers) |-> Decline(i, "inactive")]
            /\ cbIdx' = Len(offers) + 1
            /\ cbpc' = "ro_return"
       ELSE /\ cbCmds' = << >>
            /\ cbIdx' = 1
            /\ cbpc' = "ro_accept"
    /\ UNCHANGED << active, driver, cluster, Config, stopped, cbCpus, cbMem, httpVars,
                    logVars, lastConn >>

\* acceptOffer up to match's read of Config.Cpus.
AcceptOffer ==
    /\ ~stopped /\ cbpc = "ro_accept"
    /\ LET offer == cbOffers[cbIdx]
       IN  IF alreadyRunning(cluster, offer)
           THEN /\ cbCmds' = Append(cbCmds, Decline(cbIdx, "already running"))
                /\ cbIdx' = cbIdx + 1
                /\ cbpc' = AfterOffer(cbIdx)
                /\ UNCHANGED cbCpus
           ELSE IF noCpus(Config, offer)
           THEN /\ cbCmds' = Append(cbCmds, Decline(cbIdx, "no cpus"))
                /\ cbIdx' = cbIdx + 1
                /\ cbpc' = AfterOffer(cbIdx)
                /\ UNCHANGED cbCpus
           ELSE /\ cbpc' = "ro_mem"
                /\ cbCpus' = Config.Cpus
                /\ UNCHANGED << cbCmds, cbIdx >>
    /\ UNCHANGED << schedVars, Config, stopped, cbOffers, cbMem, httpVars, logVars,
                    lastConn >>

\* match's read of Config.Mem.
MatchMem ==
    /\ ~stopped /\ cbpc = "ro_mem"
    /\ IF noMem(Config, cbOffers[cbIdx])
       THEN /\ cbCmds' = Append(cbCmds, Decline(cbIdx, "no mem"))
            /\ cbIdx' = cbIdx + 1
            /\ cbpc' = AfterOffer(cbIdx)
            /\ cbCpus' = 0
            /\ UNCHANGED cbMem
       ELSE /\ cbpc' = "ro_launch"
            /\ cbMem' = Config.Mem
            /\ UNCHANGED << cbCmds, cbIdx, cbCpus >>
    /\ UNCHANGED << schedVars, Config, stopped, cbOffers, httpVars, logVars, lastConn >>

\* launchTask: the TaskInfo, cluster.Add and driver.LaunchTasks.
LaunchTask ==
    /\ ~stopped /\ cbpc = "ro_launch"
    /\ LET offer == cbOffers[cbIdx]
           task == launchTask(offer, Len(launched) + 1, Config)
       IN  /\ cluster' = Add(cluster, offer.hostname, task)
           /\ launched' = Append(launched, task.TaskId)
    /\ cbCmds' = Append(cbCmds, Launch(cbIdx))
    /\ cbIdx' = cbIdx + 1
    /\ cbpc' = AfterOffer(cbIdx)
    /\ cbCpus' = 0
    /\ cbMem' = 0
    /\ UNCHANGED << active, driver, activeLock, Config, stopped, cbOffers, httpVars,
                    killed, terminated, lastConn >>

\* The callback returns: the deferred Unlock().
OffersReturn ==
    /\ ~stopped /\ cbpc = "ro_return"
    /\ activeLock' = Free
    /\ cbpc' = "idle"
    /\ cbOffers' = << >>
    /\ cbIdx' = 0
    /\ cbCmds' = << >>
    /\ UNCHANGED << active, driver, cluster, Config, stopped, cbCpus, cbMem, httpVars,
                    logVars, lastConn >>

\* ------------------------------------------------------ logging callbacks
\* Each of these callbacks writes one line to the log and returns.
OfferRescinded == ~stopped /\ cbpc = "idle" /\ Connected /\ UNCHANGED vars

FrameworkMessage == ~stopped /\ cbpc = "idle" /\ Connected /\ UNCHANGED vars

SlaveLost == ~stopped /\ cbpc = "idle" /\ Connected /\ UNCHANGED vars

ExecutorLost == ~stopped /\ cbpc = "idle" /\ Connected /\ UNCHANGED vars

Error == ~stopped /\ cbpc = "idle" /\ UNCHANGED vars

\* ------------------------------------------------------------ StatusUpdate
\* Mutant of isTerminal: every status update removes the placement.
isTerminal_Always(state) == TRUE

\* Mutant of isTerminal: a running task counts as ended.
isTerminal_WithRunning(state) == state \in TerminalStates \cup {"TASK_RUNNING"}

isTerminal(state) ==
    \/ state = "TASK_FAILED" \/ state = "TASK_KILLED"
    \/ state = "TASK_LOST" \/ state = "TASK_ERROR"
    \/ state = "TASK_FINISHED"

\* The status of a task this scheduler launched; a status may be delivered again.
StatusUpdate(taskId, state) ==
    /\ ~stopped /\ cbpc = "idle" /\ Connected
    /\ taskId \in LaunchedIds
    /\ UNCHANGED << active, driver, activeLock, Config, stopped, cbVars, httpVars,
                    launched, killed, lastConn >>
    /\ terminated' = IF state \in TerminalStates THEN terminated \cup {taskId} ELSE terminated
    /\ LET hostname == DecodedHostname[taskId]
       IN  cluster' = IF isTerminal(state) THEN Remove(cluster, hostname) ELSE cluster

\* ----------------------------------------------------------- control plane
\* handleStart: Config.CanStart(), read without a lock.
HandleStart(t) ==
    /\ ~stopped /\ hpc[t] = "idle"
    /\ hpc' = [hpc EXCEPT ![t] = IF CanStart(Config) THEN "start_set" ELSE "start_fail"]
    /\ UNCHANGED << schedVars, Config, stopped, cbVars, hTasks, hKilled, hQuery, hField,
                    logVars, lastConn >>

\* SetActive(true): Lock(), s.active = true, Unlock().
SetActiveTrue(t) ==
    /\ ~stopped /\ hpc[t] = "start_set"
    /\ activeLock = Free
    /\ active' = TRUE
    /\ hpc' = [hpc EXCEPT ![t] = "idle"]
    /\ UNCHANGED << driver, cluster, activeLock, Config, stopped, cbVars, hTasks, hKilled,
                    hQuery, hField, logVars, lastConn >>

\* Mutant of tasksToKill: every task ever launched, as it was placed under the
\* current configuration, whether the registry still holds it or not.
tasksToKill_EverLaunched(c) ==
    GetAllTasks(c) \cup { [TaskId |-> id, Cpus |-> Config.Cpus, Mem |-> Config.Mem,
                           Data |-> Config] : id \in LaunchedIds }

\* The tasks SetActive(false) will kill: s.cluster.GetAllTasks().
tasksToKill(c) == GetAllTasks(c)

\* handleStop, SetActive(false) up to the loop: Lock(), s.active = false and the
\* snapshot of the registry. With nothing to kill the call unlocks and returns.
HandleStop(t) ==
    /\ ~stopped /\ hpc[t] = "idle"
    /\ activeLock = Free
    /\ active' = FALSE
    /\ hTasks' = [hTasks EXCEPT ![t] = tasksToKill(cluster)]
    /\ hKilled' = [hKilled EXCEPT ![t] = << >>]
    /\ IF tasksToKill(cluster) = {}
       THEN /\ hpc' = [hpc EXCEPT ![t] = "stop_ok"]
            /\ UNCHANGED activeLock
       ELSE /\ hpc' = [hpc EXCEPT ![t] = "stop_kill"]
            /\ activeLock' = Http(t)
    /\ UNCHANGED << driver, cluster, Config, stopped, cbVars, hQuery, hField, logVars,
                    lastConn >>

Range(seq) == { seq[i] : i \in 1..Len(seq) }

\* The tasks of the snapshot the loop has not reached yet.
Remaining(t) == { task \in hTasks[t] : task.TaskId \notin Range(hKilled[t]) }

\* s.driver.KillTask: a method call on the interface value s.driver, which panics
\* with a nil pointer dereference when the value is nil.
killPanics(d) == d = "nil"

\* One iteration of SetActive's loop, in the order the range yields. A panic unwinds
\* through the deferred Unlock(); after the last task the call unlocks and returns.
KillTask(t, task) ==
    /\ ~stopped /\ hpc[t] = "stop_kill"
    /\ task \in Remaining(t)
    /\ IF killPanics(driver)
       THEN /\ hpc' = [hpc EXCEPT ![t] = "stop_panic"]
            /\ activeLock' = Free
            /\ UNCHANGED << hKilled, killed >>
       ELSE /\ killed' = killed \cup {task.TaskId}
            /\ hKilled' = [hKilled EXCEPT ![t] = Append(@, task.TaskId)]
            /\ IF Remaining(t) = {task}
               THEN /\ hpc' = [hpc EXCEPT ![t] = "stop_ok"]
                    /\ activeLock' = Free
               ELSE UNCHANGED << hpc, activeLock >>
    /\ UNCHANGED << active, driver, cluster, Config, stopped, cbVars, hTasks, hQuery,
                    hField, launched, terminated, lastConn >>

\* Whether handleUpdate's i-th assignment writes its field.
Writes(queryParams, i) ==
    LET f == UpdateFields[i]
        value == Get(queryParams, f.key)
    IN  IF f.float THEN ~ParseFloat(value).err /\ value # "" ELSE value # ""

\* The first assignment at or after i that writes, Len(UpdateFields) + 1 when none does.
NextWrite(queryParams, i) ==
    LET js == { j \in i..Len(UpdateFields) : Writes(queryParams, j) }
    IN  IF js = {} THEN Len(UpdateFields) + 1
        ELSE CHOOSE j \in js : \A k \in js : j <= k

\* handleUpdate: the request arrives; assignments that write nothing are skipped.
HandleUpdate(t, queryParams) ==
    /\ ~stopped /\ hpc[t] = "idle"
    /\ IF NextWrite(queryParams, 1) > Len(UpdateFields)
       THEN UNCHANGED << hpc, hQuery, hField >>
       ELSE /\ hpc' = [hpc EXCEPT ![t] = "update_write"]
            /\ hQuery' = [hQuery EXCEPT ![t] = queryParams]
            /\ hField' = [hField EXCEPT ![t] = NextWrite(queryParams, 1)]
    /\ UNCHANGED << schedVars, Config, stopped, cbVars, hTasks, hKilled, logVars, lastConn >>

\* One assignment of handleUpdate: a write of one Config field, without a lock.
UpdateWrite(t) ==
    /\ ~stopped /\ hpc[t] = "update_write"
    /\ Config' = ApplyField(Config, hQuery[t], hField[t])
    /\ IF NextWrite(hQuery[t], hField[t] + 1) > Len(UpdateFields)
       THEN /\ hpc' = [hpc EXCEPT ![t] = "idle"]
            /\ hQuery' = [hQuery EXCEPT ![t] = NoQuery]
            /\ hField' = [hField EXCEPT ![t] = 0]
       ELSE /\ hField' = [hField EXCEPT ![t] = NextWrite(hQuery[t], hField[t] + 1)]
            /\ UNCHANGED << hpc, hQuery >>
    /\ UNCHANGED << schedVars, stopped, cbVars, hTasks, hKilled, logVars, lastConn >>

\* The end of a request whose handler has run: handleStart's failure response,
\* handleStop's response, or net/http recovering a handler's panic and dropping
\* the connection. (handleStart's success and handleUpdate respond in their last step.)
Respond(t) ==
    /\ ~stopped
    /\ hpc[t] \in {"start_fail", "stop_ok", "stop_panic"}
    /\ hpc' = [hpc EXCEPT ![t] = "idle"]
    /\ hTasks' = [hTasks EXCEPT ![t] = {}]
    /\ hKilled' = [hKilled EXCEPT ![t] = << >>]
    /\ UNCHANGED << schedVars, Config, stopped, cbVars, hQuery, hField, logVars, lastConn >>

\* Mutant of Shutdown: the fleet is stopped too, as SetActive(false) would.
Shutdown_KillsAll ==
    /\ ~stopped
    /\ stopped' = TRUE
    /\ active' = FALSE
    /\ killed' = killed \cup { task.TaskId : task \in GetAllTasks(cluster) }
    /\ UNCHANGED << driver, cluster, activeLock, Config, cbVars, httpVars, launched,
                    terminated, lastConn >>

\* Shutdown on the interrupt signal: driver.Stop(false); Run returns and Start with it.
Shutdown ==
    /\ ~stopped
    /\ stopped' = TRUE
    /\ UNCHANGED << schedVars, Config, cbVars, httpVars, logVars, lastConn >>

\* ----------------------------------------------------------- specification
Next ==
    \/ Registered
    \/ Reregistered
    \/ Disconnected
    \/ \E offers \in Batches : ResourceOffers(offers)
    \/ AcceptOffer
    \/ MatchMem
    \/ LaunchTask
    \/ OffersReturn
    \/ \E taskId \in LaunchedIds, state \in TaskStates : StatusUpdate(taskId, state)
    \/ OfferRescinded
    \/ FrameworkMessage
    \/ SlaveLost
    \/ ExecutorLost
    \/ Error
    \/ \E t \in HttpThreads : HandleStart(t)
    \/ \E t \in HttpThreads : SetActiveTrue(t)
    \/ \E t \in HttpThreads : HandleStop(t)
    \/ \E t \in HttpThreads : \E task \in hTasks[t] : KillTask(t, task)
    \/ \E t \in HttpThreads : \E queryParams \in UpdateQueries : HandleUpdate(t, queryParams)
    \/ \E t \in HttpThreads : UpdateWrite(t)
    \/ \E t \in HttpThreads : Respond(t)
    \/ Shutdown

Spec == Init /\ [][Next]_vars

\* The resource manager reports a task it was told to kill as killed.
ConfirmKill == \E taskId \in killed \ terminated : StatusUpdate(taskId, "TASK_KILLED")

\* Fairness: a callback or a request handler that can take its next step takes it
\* (the Go scheduler runs every runnable goroutine), a goroutine waiting in Lock()
\* gets the lock when it is free again and again (sync.Mutex hands a starved
\* waiter the lock), and the resource manager confirms the kills it was asked for.
FairSpec ==
    /\ Spec
    /\ WF_vars(AcceptOffer) /\ WF_vars(MatchMem) /\ WF_vars(LaunchTask)
    /\ WF_vars(OffersReturn)
    /\ \A t \in HttpThreads :
          /\ SF_vars(SetActiveTrue(t))
          /\ WF_vars(\E task \in hTasks[t] : KillTask(t, task))
          /\ WF_vars(UpdateWrite(t))
          /\ WF_vars(Respond(t))
    /\ WF_vars(ConfirmKill)

\* ------------------------------------------- configuration specification
\* The same program driven through its configuration: /api/update requests that
\* reach every field handleUpdate assigns, and single offers of one host in each
\* of the resource lists, so that every outcome of CanStart and of match occurs.
ConfigQueries ==
    { [k \in {"topic"} |-> "orders"],
      [k \in {"producer.properties"} |-> "p.properties"],
      [k \in {"broker.list"} |-> "b:9092"],
      [k \in {"transform"} |-> TransformAvro],
      [k \in {"schema.registry.url"} |-> "http://sr"],
      [k \in {"cpu", "mem"} |-> IF k = "cpu" THEN "0.2" ELSE "128"],
      [k \in {"cpu", "topic", "zone"} |-> IF k = "cpu" THEN "abc" ELSE IF k = "topic" THEN "" ELSE "z"] }

ConfigOffers == [hostname : { <<"a">> }, resources : ResourceLists]

ConfigBatches == [1..1 -> ConfigOffers]

ConfigNext ==
    \/ Registered
    \/ Reregistered
    \/ Disconnected
    \/ \E offers \in ConfigBatches : ResourceOffers(offers)
    \/ AcceptOffer
    \/ MatchMem
    \/ LaunchTask
    \/ OffersReturn
    \/ \E taskId \in LaunchedIds, state \in TaskStates : StatusUpdate(taskId, state)
    \/ OfferRescinded
    \/ FrameworkMessage
    \/ SlaveLost
    \/ ExecutorLost
    \/ Error
    \/ \E t \in HttpThreads : HandleStart(t)
    \/ \E t \in HttpThreads : SetActiveTrue(t)
    \/ \E t \in HttpThreads : HandleStop(t)
    \/ \E t \in HttpThreads : \E task \in hTasks[t] : KillTask(t, task)
    \/ \E t \in HttpThreads : \E queryParams \in ConfigQueries : HandleUpdate(t, queryParams)
    \/ \E t \in HttpThreads : UpdateWrite(t)
    \/ \E t \in HttpThreads : Respond(t)
    \/ Shutdown

ConfigSpec == Init /\ [][ConfigNext]_vars

\* ------------------------------------------------------------------ claims
\* The task ids launched on host h for which no terminal status has been delivered.
LiveOn(h) == { id \in LaunchedIds \ terminated : id.hostname = h }

\* C1: no host ever has two launched tasks that have both not been reported
\* terminal, whatever status updates arrive, a repeated terminal status of an
\* earlier task on the host included.
C1_OneLiveTaskPerHost == \A h \in Hosts : Cardinality(LiveOn(h)) <= 1

\* The callback thread takes a step of ResourceOffers' loop.
OfferStep == cbpc' # cbpc \/ cbIdx' # cbIdx

\* C2: while the scheduler is active, an offer whose hostname has a placement in
\* the registry is declined whatever its resources: the registry and the launches
\* are unchanged, the offer never reaches match or launchTask, and the command
\* issued for it is a decline. A second offer of a host within one batch is such
\* an offer once the first one was accepted.
C2_OccupiedHostDeclined ==
    [][ (cbpc = "ro_accept" /\ cbOffers[cbIdx].hostname \in DOMAIN cluster)
        => /\ cluster' = cluster
           /\ launched' = launched
           /\ cbpc' \in {"ro_accept", "ro_return"}
           /\ OfferStep =>
                 /\ cbCmds' = Append(cbCmds, Decline(cbIdx, "already running"))
                 /\ cbIdx' = cbIdx + 1 ]_vars

\* C2 witness: a batch of two offers of one host, both with resources enough, of
\* which the first was launched and the second declined.
C2_Witness ==
    /\ cbpc = "ro_return"
    /\ Len(cbOffers) = 2
    /\ cbOffers[1].hostname = cbOffers[2].hostname
    /\ match(Config, cbOffers[2]) = ""
    /\ cbCmds = << Launch(1), Decline(2, "already running") >>

\* C3: an inactive scheduler answers a batch with one decline per offer and nothing
\* else, the registry and the launches unchanged; and no launch command is issued in
\* a state where active is false.
C3_InactiveDeclinesAll ==
    [][ /\ (cbpc = "idle" /\ cbpc' # "idle" /\ ~active)
           => /\ cbpc' = "ro_return"
              /\ cbCmds' = [i \in 1..Len(cbOffers') |-> Decline(i, "inactive")]
              /\ cluster' = cluster
              /\ launched' = launched
        /\ (cbpc = "ro_return" /\ cbpc' # cbpc)
           => (cbpc' = "idle" /\ cluster' = cluster /\ launched' = launched)
        /\ launched' # launched => (active /\ active') ]_vars

\* C3 witness: an inactive scheduler has declined a batch whose first offer is of a
\* free host with resources enough.
C3_Witness ==
    /\ cbpc = "ro_return"
    /\ ~active
    /\ Len(cbOffers) = 2
    /\ cbOffers[1].hostname \notin DOMAIN cluster
    /\ match(Config, cbOffers[1]) = ""
    /\ cbCmds = << Decline(1, "inactive"), Decline(2, "inactive") >>

\* No SetActive call is in progress: no goroutine is inside SetActive's loop.
NoSetActiveInProgress == \A t \in HttpThreads : hpc[t] # "stop_kill"

\* C4: offers are decided under the lock SetActive takes, so no placement escapes a
\* stop: whenever active is false and no SetActive call is in progress, every
\* placement in the registry has had a kill command issued for it.
C4_InactivePlacementsKilled ==
    (~active /\ NoSetActiveInProgress)
    => \A h \in DOMAIN cluster : cluster[h].TaskId \in killed

\* C5: a SetActive(false) call that has ended issued exactly one kill command for
\* each placement the registry held when it was called, and no other.
C5_OneKillPerPlacement ==
    \A t \in HttpThreads :
        hpc[t] \in {"stop_ok", "stop_panic"}
        => /\ Len(hKilled[t]) = Cardinality(hTasks[t])
           /\ Range(hKilled[t]) = { task.TaskId : task \in hTasks[t] }

\* C6: once active is false and stays false, the registry is eventually empty,
\* provided every kill command is eventually followed by the task's terminal
\* status (the run ends early only when Shutdown stops the driver); and a
\* SetActive(false) call that returned killed each placement exactly once.
C6_InactiveRegistryDrains ==
    /\ []<>(killed \subseteq terminated)
       => (~active ~> (active \/ DOMAIN cluster = {} \/ stopped))
    /\ [](\A t \in HttpThreads :
            hpc[t] = "stop_ok"
            => /\ Len(hKilled[t]) = Cardinality(hTasks[t])
               /\ Range(hKilled[t]) = { task.TaskId : task \in hTasks[t] })

\* C10: a control-plane call made while the driver handle is absent never calls a
\* method on it, so no handler panics.
C10_NoUseOfAbsentDriver == \A t \in HttpThreads : hpc[t] # "stop_panic"

\* The placements the registry holds.
Placements == { cluster[h] : h \in DOMAIN cluster }

\* Goroutine t calls SetActive(false) in this step.
StopCalled(t) == hpc[t] = "idle" /\ hpc'[t] \in {"stop_kill", "stop_ok"}

\* C7: each SetActive(false) call kills only placements the registry holds at that
\* call, each at most once; a call made when active is already false and the
\* registry is empty issues no command and changes no state of the scheduler.
C7_StopKillsOnlyPresent ==
    [][ \A t \in HttpThreads :
          /\ StopCalled(t) => (hTasks'[t] = Placements /\ hKilled'[t] = << >>)
          /\ hKilled'[t] # hKilled[t] /\ hpc[t] = "stop_kill"
             => \E task \in hTasks[t] :
                   /\ task.TaskId \notin Range(hKilled[t])
                   /\ hKilled'[t] = Append(hKilled[t], task.TaskId)
                   /\ killed' = killed \cup {task.TaskId}
          /\ (killed' # killed) => (\E u \in HttpThreads : hpc[u] = "stop_kill")
          /\ (StopCalled(t) /\ ~active /\ DOMAIN cluster = {})
             => /\ hpc'[t] = "stop_ok"
                /\ UNCHANGED << active, driver, cluster, activeLock, Config, launched,
                                killed, terminated >> ]_vars

\* C7 witness: a SetActive(false) call has returned having found the registry
\* empty, after an earlier call killed tasks and their terminal statuses arrived.
C7_Witness ==
    \E t \in HttpThreads :
        /\ hpc[t] = "stop_ok"
        /\ hTasks[t] = {}
        /\ hKilled[t] = << >>
        /\ killed # {}
        /\ killed \subseteq terminated
        /\ DOMAIN cluster = {}

\* C8: no step of the control plane changes the registry; a placement leaves it
\* only in a terminal StatusUpdate for a task id of its host, so the offers of a
\* host whose kill is not confirmed keep being declined after a restart.
C8_OnlyStatusUpdateRemoves ==
    [][ /\ (active' # active \/ hpc' # hpc \/ killed' # killed) => cluster' = cluster
        /\ \A h \in DOMAIN cluster :
              (h \notin DOMAIN cluster' \/ cluster'[h] # cluster[h])
              => \E taskId \in LaunchedIds, state \in TerminalStates :
                    /\ taskId.hostname = h
                    /\ StatusUpdate(taskId, state)
        /\ (cbpc = "ro_accept" /\ OfferStep
              /\ cbOffers[cbIdx].hostname \in DOMAIN cluster
              /\ cluster[cbOffers[cbIdx].hostname].TaskId \in killed)
           => cbCmds' = Append(cbCmds, Decline(cbIdx, "already running")) ]_vars

\* C8 witness: after a stop and a restart, an offer with resources enough is
\* declined because its host still holds a placement whose kill is not confirmed.
C8_Witness ==
    /\ active
    /\ cbpc = "ro_return"
    /\ \E i \in 1..Len(cbOffers) :
          /\ cbCmds[i] = Decline(i, "already running")
          /\ match(Config, cbOffers[i]) = ""
          /\ cbOffers[i].hostname \in DOMAIN cluster
          /\ cluster[cbOffers[i].hostname].TaskId \in killed \ terminated

\* C9: a terminal StatusUpdate for a task id built for host h leaves the registry
\* without h and every other placement as it was; and an active scheduler accepts
\* an offer of a host the registry does not hold when its resources suffice,
\* registering a new placement for the host with a fresh task id.
C9_TerminalFreesHost ==
    [][ /\ \A taskId \in LaunchedIds, state \in TerminalStates :
              StatusUpdate(taskId, state)
              => /\ taskId.hostname \notin DOMAIN cluster'
                 /\ \A h \in DOMAIN cluster \ {taskId.hostname} :
                       h \in DOMAIN cluster' /\ cluster'[h] = cluster[h]
                 /\ DOMAIN cluster' \subseteq DOMAIN cluster
        /\ (cbpc = "ro_accept" /\ OfferStep
              /\ cbOffers[cbIdx].hostname \notin DOMAIN cluster
              /\ getScalarResources(cbOffers[cbIdx], "cpus") >= Config.Cpus)
           => cbpc' = "ro_mem"
        /\ (cbpc = "ro_mem" /\ OfferStep
              /\ getScalarResources(cbOffers[cbIdx], "mem") >= Config.Mem)
           => cbpc' = "ro_launch"
        /\ (cbpc = "ro_launch" /\ OfferStep)
           => LET h == cbOffers[cbIdx].hostname
              IN  /\ h \in DOMAIN cluster'
                  /\ cluster'[h].TaskId \notin LaunchedIds
                  /\ cluster'[h].TaskId.hostname = h
                  /\ launched' = Append(launched, cluster'[h].TaskId)
                  /\ cbCmds' = Append(cbCmds, Launch(cbIdx)) ]_vars

\* C9 witness: the first task of a host was reported terminal and the host's next
\* offer has been accepted: the registry holds a newer placement for the host.
C9_Witness ==
    \E h \in DOMAIN cluster :
        /\ cbpc = "ro_return"
        /\ Len(launched) = 2
        /\ launched[1].hostname = h
        /\ launched[1] \in terminated
        /\ cluster[h].TaskId = launched[2]
        /\ cbCmds[Len(cbCmds)] = Launch(Len(cbOffers))

\* C11: the driver handle and the registry are touched only under activeLock: a
\* step that writes the driver handle or changes the registry is taken by the
\* callback thread while it holds the lock, and a step of SetActive's kill loop,
\* which reads the driver handle, is taken by a goroutine that holds the lock.
C11_GuardedByLock ==
    [][ /\ driver' # driver => activeLock = CbThread
        /\ cluster' # cluster => activeLock = CbThread
        /\ \A t \in HttpThreads :
              (hpc[t] = "stop_kill" /\ (hpc'[t] # hpc[t] \/ hKilled'[t] # hKilled[t]))
              => activeLock = Http(t) ]_vars

\* The condition under which a start request may activate the scheduler: the topic
\* is set, the broker list or the producer properties are set, and the avro
\* transform comes with a schema registry URL.
StartAllowed(c) ==
    /\ c.Topic # ""
    /\ c.BrokerList # "" \/ c.ProducerProperties # ""
    /\ c.Transform = TransformAvro => c.SchemaRegistryUrl # ""

\* Goroutine t evaluates handleStart's test in this step.
StartCalled(t) == hpc[t] = "idle" /\ hpc'[t] \in {"start_set", "start_fail"}

\* C12: a start request goes on to SetActive(true) exactly when the configuration
\* allows a start, and active becomes true only in such a request; a request that
\* fails changes neither active, the registry nor the configuration and issues no
\* command, from its test to its response.
C12_StartOnlyIfCanStart ==
    [][ /\ \A t \in HttpThreads :
              /\ StartCalled(t) => (hpc'[t] = "start_set" <=> StartAllowed(Config))
              /\ (hpc'[t] # hpc[t] /\ "start_fail" \in {hpc[t], hpc'[t]})
                 => UNCHANGED << active, driver, cluster, Config, cbCmds, launched, killed >>
        /\ (~active /\ active') => \E t \in HttpThreads : hpc[t] = "start_set" ]_vars

\* C12 witness: a start request has failed on a scheduler holding a placement,
\* whose topic and broker list are set but whose avro transform lacks the schema
\* registry URL.
C12_Witness ==
    \E t \in HttpThreads :
        /\ hpc[t] = "start_fail"
        /\ Config.Topic # "" /\ Config.BrokerList # ""
        /\ Config.Transform = TransformAvro /\ Config.SchemaRegistryUrl = ""
        /\ DOMAIN cluster # {}

\* The recognized key of each configuration field an update request may set.
KeyOf ==
    [ ProducerProperties |-> "producer.properties", BrokerList |-> "broker.list",
      Topic |-> "topic", Transform |-> "transform",
      SchemaRegistryUrl |-> "schema.registry.url", Cpus |-> "cpu", Mem |-> "mem" ]

\* The value request q supplies for field f: "" when its key is absent.
Supplied(q, f) == IF KeyOf[f] \in DOMAIN q THEN q[KeyOf[f]] ELSE ""

\* The value field f takes from the text v of a request.
FieldValue(f, v) == IF f \in {"Cpus", "Mem"} THEN ParseFloat(v).value ELSE v

\* C13: a configuration field changes only in an update request that supplies its
\* recognized key with a non-empty value, and then to that value; a step that
\* changes the configuration changes neither active, the driver handle, the
\* registry nor any command issued; and when the request ends every field it
\* supplied a usable value for holds that value.
C13_UpdateOverwritesOnlySupplied ==
    [][ /\ \A f \in DOMAIN KeyOf :
              Config'[f] # Config[f]
              => \E t \in HttpThreads :
                    /\ hpc[t] = "update_write"
                    /\ Supplied(hQuery[t], f) # ""
                    /\ Config'[f] = FieldValue(f, Supplied(hQuery[t], f))
        /\ Config' # Config
           => UNCHANGED << active, driver, cluster, cbCmds, launched, killed >>
        /\ \A t \in HttpThreads :
              (hpc[t] = "update_write" /\ hpc'[t] = "idle")
              => \A f \in DOMAIN KeyOf :
                    LET v == Supplied(hQuery[t], f)
                    IN  (v # "" /\ (f \in {"Cpus", "Mem"} => ~ParseFloat(v).err))
                        => Config'[f] = FieldValue(f, v) ]_vars

\* C13 witness: an update request carrying cpu and mem has written the first of
\* them and not yet the second, on a scheduler holding a placement.
C13_Witness ==
    \E t \in HttpThreads :
        /\ hpc[t] = "update_write"
        /\ DOMAIN hQuery[t] = {"cpu", "mem"}
        /\ Config.Cpus # DefaultCpus
        /\ Config.Mem = DefaultMem
        /\ DOMAIN cluster # {}

\* The sum of the scalar entries of offer named name, entry by entry.
RECURSIVE ScalarTotalUpTo(_, _, _)
ScalarTotalUpTo(offer, name, k) ==
    IF k = 0 THEN 0
    ELSE LET r == offer.resources[k]
         IN  ScalarTotalUpTo(offer, name, k - 1)
             + (IF r.name = name /\ r.type = "SCALAR" THEN r.value ELSE 0)

ScalarTotal(offer, name) == ScalarTotalUpTo(offer, name, Len(offer.resources))

\* The Matcher's answer as stated: compute is compared first, memory second.
MatchStated(c, offer) ==
    IF ScalarTotal(offer, "cpus") < c.Cpus THEN "no cpus"
    ELSE IF ScalarTotal(offer, "mem") < c.Mem THEN "no mem"
    ELSE ""

\* The desired shapes the update requests can set, and match compared with the
\* stated answer on each of them and every offer.
DesiredShapes == [Cpus : {DefaultCpus, 2 * DefaultCpus}, Mem : {DefaultMem, 2 * DefaultMem}]

MatchAgrees ==
    \A c \in DesiredShapes, offer \in Offers : match(c, offer) = MatchStated(c, offer)

\* C14: match accepts exactly when the summed scalar cpus and the summed scalar mem
\* of the offer reach the desired shape, answers "no cpus" whenever the cpus fall
\* short, whatever the memory, and "no mem" only when the cpus suffice; the steps
\* of ResourceOffers that evaluate it act on its answer and change no state of the
\* scheduler.
C14_MatchBySummedScalars ==
    [][ /\ MatchAgrees
        /\ [Cpus |-> Config.Cpus, Mem |-> Config.Mem] \in DesiredShapes
        /\ (cbpc = "ro_accept" /\ OfferStep /\ cbOffers[cbIdx].hostname \notin DOMAIN cluster)
           => IF ScalarTotal(cbOffers[cbIdx], "cpus") < Config.Cpus
              THEN cbCmds' = Append(cbCmds, Decline(cbIdx, "no cpus"))
              ELSE cbpc' = "ro_mem" /\ cbCmds' = cbCmds
        /\ (cbpc = "ro_mem" /\ OfferStep)
           => IF ScalarTotal(cbOffers[cbIdx], "mem") < Config.Mem
              THEN cbCmds' = Append(cbCmds, Decline(cbIdx, "no mem"))
              ELSE cbpc' = "ro_launch" /\ cbCmds' = cbCmds
        /\ (cbpc \in {"ro_accept", "ro_mem"} /\ OfferStep)
           => UNCHANGED << active, driver, cluster, activeLock, Config, launched, killed >> ]_vars

\* C14 witness: an offer short of both cpus and memory was declined for its cpus.
C14_Witness ==
    /\ cbpc = "ro_return"
    /\ active
    /\ cbCmds = << Decline(1, "no cpus") >>
    /\ ScalarTotal(cbOffers[1], "mem") < Config.Mem
    /\ ScalarTotal(cbOffers[1], "cpus") < Config.Cpus

\* Hostnames without a hyphen, with hyphens inside, at either end and doubled, and
\* the empty hostname.
CodecHosts ==
    Hosts \cup { << >>, <<"a", "-", "b", "-", "c">>, <<"-", "a">>, <<"a", "-">>,
                 <<"a", "-", "-", "b">>, <<"k", "a", "f", "k", "a">> }

\* Decoding the identifier built for each of these hostnames gives the hostname.
CodecRoundTrip ==
    \A h \in CodecHosts, n \in 1..MaxTasks :
        /\ Len(taskIdValue(h, n)) = Len(FrameworkPrefix) + Len(h) + StripLen + 1
        /\ hostnameFromTaskId(taskIdValue(h, n)) = h

\* C15: hostnameFromTaskId applied to the task identifier built for hostname h
\* returns h, for hostnames with and without hyphens; so the identifier of every
\* task launched decodes to the host it was launched on, and the identifier of a
\* placement to the hostname the registry keeps it under.
C15_DecodeInvertsEncode ==
    /\ CodecRoundTrip
    /\ \A i \in 1..Len(launched) : DecodedHostname[launched[i]] = launched[i].hostname
    /\ \A h \in DOMAIN cluster : DecodedHostname[cluster[h].TaskId] = h

\* C15 witness: the terminal status of the task of a hostname with a hyphen has
\* removed that host's placement and left the other host's.
C15_Witness ==
    \E id \in terminated :
        /\ Hyphen \in Range(id.hostname)
        /\ id.hostname \notin DOMAIN cluster
        /\ DOMAIN cluster # {}

\* C16: an active scheduler accepts the offer of a host the registry does not hold
\* when match finds its resources enough: the offer goes through match to
\* launchTask, which issues one launch command for the offer with one new task and
\* registers that task as the one placement of the host, under a task id that
\* decodes to the host; the placements of the other hosts stay as they were.
C16_FreeHostAccepted ==
    [][ /\ (cbpc \in {"ro_accept", "ro_mem"} /\ OfferStep
              /\ cbOffers[cbIdx].hostname \notin DOMAIN cluster
              /\ match(Config, cbOffers[cbIdx]) = "")
           => /\ cbpc' = IF cbpc = "ro_accept" THEN "ro_mem" ELSE "ro_launch"
              /\ UNCHANGED << cbCmds, cbIdx, cluster, launched >>
        /\ (cbpc = "ro_launch" /\ OfferStep)
           => LET h == cbOffers[cbIdx].hostname
              IN  /\ active
                  /\ h \notin DOMAIN cluster
                  /\ cbCmds' = Append(cbCmds, Launch(cbIdx))
                  /\ cbIdx' = cbIdx + 1
                  /\ Len(launched') = Len(launched) + 1
                  /\ SubSeq(launched', 1, Len(launched)) = launched
                  /\ DOMAIN cluster' = DOMAIN cluster \cup {h}
                  /\ cluster'[h].TaskId = launched'[Len(launched')]
                  /\ DecodedHostname[cluster'[h].TaskId] = h
                  /\ \A g \in DOMAIN cluster : cluster'[g] = cluster[g] ]_vars

\* C16 witness: the first offer an active scheduler received, of host a, was
\* answered with a launch, and the registry holds the one placement of host a.
C16_Witness ==
    /\ cbpc = "ro_return"
    /\ active
    /\ Len(cbOffers) = 1
    /\ cbOffers[1].hostname = <<"a">>
    /\ cbCmds = << Launch(1) >>
    /\ DOMAIN cluster = { <<"a">> }
    /\ launched = << cluster[<<"a">>].TaskId >>

\* C17: within a ResourceOffers callback the commands issued so far answer the
\* offers handled so far, one command each, a decline or a launch, in the order of
\* the batch; when the callback returns every offer of the batch has its one
\* answer, whether the scheduler is active or not.
C17_OneResponsePerOffer ==
    /\ \A i \in 1..Len(cbCmds) :
          cbCmds[i].offer = i /\ cbCmds[i].cmd \in {"decline", "launch"}
    /\ cbpc \in {"ro_accept", "ro_mem", "ro_launch"}
       => (cbIdx \in 1..Len(cbOffers) /\ Len(cbCmds) = cbIdx - 1)
    /\ cbpc = "ro_return" => Len(cbCmds) = Len(cbOffers)
    /\ cbpc = "idle" => cbCmds = << >>

\* C17 witness: an active scheduler returns from a batch of two offers having
\* declined the first for its resources and launched a task for the second.
C17_Witness ==
    /\ cbpc = "ro_return"
    /\ active
    /\ Len(cbOffers) = 2
    /\ Len(cbCmds) = 2
    /\ cbCmds[1].cmd = "decline" /\ cbCmds[1].reason \in {"no cpus", "no mem"}
    /\ cbCmds[2] = Launch(2)

\* What the scheduler holds and what it has told the resource manager.
coreVars == << active, driver, cluster, cbCmds, launched, killed >>

\* C18: the OfferRescinded, FrameworkMessage, SlaveLost, ExecutorLost and Error
\* callbacks, and a StatusUpdate carrying a state that is not terminal, leave the
\* registry, the active flag and the driver handle as they were and issue no
\* launch, decline or kill command.
C18_LoggedOnly ==
    [][ /\ (OfferRescinded \/ FrameworkMessage \/ SlaveLost \/ ExecutorLost \/ Error)
           => UNCHANGED coreVars
        /\ \A taskId \in LaunchedIds, state \in TaskStates \ TerminalStates :
              StatusUpdate(taskId, state) => UNCHANGED coreVars ]_vars

\* C18 witness: a connected, active scheduler holds the placement of a task that
\* has not ended, so that a status carrying TASK_RUNNING for it and each of the
\* logging callbacks can be delivered.
C18_Witness ==
    /\ active
    /\ driver = "driver"
    /\ ENABLED (OfferRescinded /\ FrameworkMessage /\ SlaveLost /\ ExecutorLost /\ Error)
    /\ \E h \in DOMAIN cluster :
          /\ cluster[h].TaskId \notin terminated
          /\ ENABLED StatusUpdate(cluster[h].TaskId, "TASK_RUNNING")

\* C19: the driver handle is present exactly when the last connectivity callback
\* was Registered or Reregistered, so it is absent before the first of them and
\* after Disconnected; the handle changes in these callbacks alone, and they
\* change neither the registry nor the active flag and issue no command.
C19_DriverFollowsConnectivity ==
    /\ [](driver = IF lastConn \in {"Registered", "Reregistered"} THEN "driver" ELSE "nil")
    /\ [][ /\ driver' # driver => lastConn' # lastConn
           /\ lastConn' # lastConn
              => /\ lastConn' \in {"Registered", "Reregistered", "Disconnected"}
                 /\ UNCHANGED << active, cluster, Config, cbCmds, launched, killed >> ]_vars

\* C19 witness: an active scheduler holding a placement was disconnected and has
\* no driver handle.
C19_Witness ==
    /\ lastConn = "Disconnected"
    /\ driver = "nil"
    /\ active
    /\ DOMAIN cluster # {}

\* Goroutine t is inside a control-plane call that writes active in this step.
SetActiveStep(t) ==
    \/ hpc[t] = "start_set" /\ hpc'[t] = "idle"
    \/ hpc[t] = "idle" /\ hpc'[t] \in {"stop_kill", "stop_ok"}

\* C20: active is false at first and changes only in a SetActive call of the
\* control plane, never in a step of the callback thread, so it is the same before
\* a disconnect and after the re-registration; a task is launched only by a
\* scheduler that is active; and a scheduler is active, or has launched a task,
\* only after a start request found it startable: its topic and its broker list
\* or producer properties are set, which the initial configuration lacks.
C20_ActiveOnlyByControlPlane ==
    /\ []((active \/ launched # << >>)
            => (Config.Topic # "" /\ (Config.BrokerList # "" \/ Config.ProducerProperties # "")))
    /\ [][ /\ active' # active => \E t \in HttpThreads : SetActiveStep(t)
           /\ (lastConn' # lastConn \/ cbpc' # cbpc \/ cluster' # cluster) => active' = active
           /\ launched' # launched => active ]_vars

\* C20 witness: a scheduler that was started and launched a task is still active
\* after a disconnect and the re-registration that followed.
C20_Witness ==
    /\ lastConn = "Reregistered"
    /\ active
    /\ launched # << >>
    /\ killed = {}

\* C21: Shutdown stops the driver, once, and does nothing else: the step that
\* stops the driver issues no kill, launch or decline command and leaves the
\* registry, the active flag and the driver handle as they were, and the driver,
\* once stopped, stays stopped.
C21_ShutdownStopsDriverOnly ==
    [][ /\ stopped' # stopped
           => /\ ~stopped /\ stopped'
              /\ UNCHANGED << active, driver, cluster, activeLock, Config, cbCmds,
                              hKilled, launched, killed, terminated >>
        /\ stopped => stopped' ]_vars

\* C21 witness: the driver of an active scheduler was stopped while the registry
\* held a placement no kill command was ever issued for.
C21_Witness ==
    /\ stopped
    /\ active
    /\ \E h \in DOMAIN cluster : cluster[h].TaskId \notin killed

\* C22: whatever update of the cpu and mem quantities interleaves with the
\* handling of an offer, the task launched for the offer is granted the cpus and
\* the memory match compared the offer with, and so no more than the summed cpus
\* and the summed memory the offer carries.
C22_GrantsAreWhatWasMatched ==
    [][ (cbpc = "ro_launch" /\ OfferStep)
        => LET offer == cbOffers[cbIdx]
               task == cluster'[offer.hostname]
           IN  /\ task.Cpus = cbCpus
               /\ task.Mem = cbMem
               /\ task.Cpus <= ScalarTotal(offer, "cpus")
               /\ task.Mem <= ScalarTotal(offer, "mem") ]_vars

\* C23: whenever the scheduler is active its configuration allows a start, and
\* the configuration snapshot every placement was launched with allows one too,
\* whatever start, stop and update requests were made.
C23_ActiveImpliesCanStart ==
    /\ active => StartAllowed(Config)
    /\ \A h \in DOMAIN cluster : StartAllowed(cluster[h].Data)

====
